---- MODULE Spec2Model ----
(***************************************************************************)
(* Model of color-algebra/src/main.rs: an explicit finite-difference       *)
(* simulation of four density fields on a 3D grid (reaction-diffusion      *)
(* pass, then the Hecke R-matrix "braiding" pass, then one CSV record per  *)
(* timestep).                                                              *)
(*                                                                         *)
(* f64 is modelled as a decimal floating-point number with a four digit    *)
(* mantissa, round-half-even, overflow to +-inf above f64::MAX, and the    *)
(* IEEE-754 rules for inf and NaN.  A value is a record                    *)
(*    [k |-> "fin", m |-> mantissa, e |-> exponent]   meaning m * 10^e     *)
(*    [k |-> "inf", m |-> 1 or -1, e |-> 0]                                *)
(*    [k |-> "nan", m |-> 0, e |-> 0]                                      *)
(* with m = 0 /\ e = 0 or 1000 <= |m| <= 9999.                             *)
(***************************************************************************)
EXTENDS Integers, Sequences, FiniteSets, TLC

\* ------------------------------------------------------------------------
\* f64 arithmetic
\* ------------------------------------------------------------------------
NaN == [k |-> "nan", m |-> 0, e |-> 0]

Inf == [k |-> "inf", m |-> 1, e |-> 0]

NegInf == [k |-> "inf", m |-> -1, e |-> 0]

Zero == [k |-> "fin", m |-> 0, e |-> 0]

Abs(n) == IF n < 0 THEN -n ELSE n

Sign(n) == IF n < 0 THEN -1 ELSE IF n > 0 THEN 1 ELSE 0

RECURSIVE Pow10(_)
Pow10(d) == IF d = 0 THEN 1 ELSE 10 * Pow10(d - 1)

\* number of decimal digits of n > 0
RECURSIVE Digits(_)
Digits(n) == IF n < 10 THEN 1 ELSE 1 + Digits(n \div 10)

\* sg * m4 * 10^e with 1000 <= m4 <= 9999: 0 below the f64 range, inf above it
Pack(sg, m4, e) ==
    IF e < -328 THEN Zero
    ELSE IF e > 305 \/ (e = 305 /\ m4 > 1797) THEN [k |-> "inf", m |-> sg, e |-> 0]
    ELSE [k |-> "fin", m |-> sg * m4, e |-> e]

\* round-half-even of (q + r/p) * 10^e
RoundOff(sg, q, r, p, e, sticky) ==
    IF 2 * r > p \/ (2 * r = p /\ (sticky \/ q % 2 = 1))
    THEN (IF q + 1 = 10000 THEN Pack(sg, 1000, e + 1) ELSE Pack(sg, q + 1, e))
    ELSE Pack(sg, q, e)

\* sg * a * 10^e, a having d digits
RoundDigits(sg, a, d, e, sticky) ==
    IF d <= 4 THEN Pack(sg, a * Pow10(4 - d), e - (4 - d))
    ELSE RoundOff(sg, a \div Pow10(d - 4), a % Pow10(d - 4), Pow10(d - 4), e + (d - 4), sticky)

\* The f64 nearest to m * 10^e (sticky: the exact value lies strictly
\* beyond |m| in magnitude, by less than one unit of m).
Round(m, e, sticky) ==
    IF m = 0 THEN Zero
    ELSE RoundDigits(Sign(m), Abs(m), Digits(Abs(m)), e, sticky)

\* the literal m * 10^e
Lit(m, e) == Round(m, e, FALSE)

\* usize as f64
FromInt(n) == Round(n, 0, FALSE)

IsNaN(a) == a.k = "nan"

IsInf(a) == a.k = "inf"

IsFin(a) == a.k = "fin"

\* sign of a non-NaN value
Sgn(a) == Sign(a.m)

FNeg(a) == IF IsNaN(a) THEN NaN ELSE [a EXCEPT !.m = -a.m]

\* hi + lo for finite non-zero values with hi.e >= lo.e
AddAligned(hi, lo) ==
    IF hi.e - lo.e > 5 THEN hi
    ELSE Round(hi.m * Pow10(hi.e - lo.e) + lo.m, lo.e, FALSE)

FAddFin(a, b) ==
    IF a.m = 0 THEN b
    ELSE IF b.m = 0 THEN a
    ELSE IF a.e >= b.e THEN AddAligned(a, b)
    ELSE AddAligned(b, a)

FAdd(a, b) ==
    IF IsNaN(a) \/ IsNaN(b) THEN NaN
    ELSE IF IsInf(a) /\ IsInf(b) THEN (IF a.m = b.m THEN a ELSE NaN)
    ELSE IF IsInf(a) THEN a
    ELSE IF IsInf(b) THEN b
    ELSE FAddFin(a, b)

FSub(a, b) == FAdd(a, FNeg(b))

FMul(a, b) ==
    IF IsNaN(a) \/ IsNaN(b) THEN NaN
    ELSE IF IsInf(a) \/ IsInf(b)
         THEN (IF Sgn(a) * Sgn(b) = 0 THEN NaN
               ELSE [k |-> "inf", m |-> Sgn(a) * Sgn(b), e |-> 0])
    ELSE Round(a.m * b.m, a.e + b.e, FALSE)

FDiv(a, b) ==
    IF IsNaN(a) \/ IsNaN(b) THEN NaN
    ELSE IF IsInf(a) THEN (IF IsInf(b) THEN NaN
                           ELSE [k |-> "inf", m |-> a.m * (IF b.m < 0 THEN -1 ELSE 1), e |-> 0])
    ELSE IF IsInf(b) THEN Zero
    ELSE IF b.m = 0 THEN (IF a.m = 0 THEN NaN
                          ELSE [k |-> "inf", m |-> Sign(a.m), e |-> 0])
    ELSE Round(Sign(a.m) * Sign(b.m) * ((Abs(a.m) * 100000) \div Abs(b.m)),
               a.e - b.e - 5, (Abs(a.m) * 100000) % Abs(b.m) # 0)

\* d < 0 and d <= 0 for a difference d; inf - inf = NaN stands for equal
IsNeg(d) == ~IsNaN(d) /\ Sgn(d) < 0

IsNonPos(d) == IsNaN(d) \/ Sgn(d) <= 0

\* a < b, a <= b as f64 comparisons: false when either side is NaN
FLt(a, b) == ~IsNaN(a) /\ ~IsNaN(b) /\ IsNeg(FSub(a, b))

FLe(a, b) == ~IsNaN(a) /\ ~IsNaN(b) /\ IsNonPos(FSub(a, b))

\* f64::max: the other argument when one is NaN
FMax(a, b) ==
    IF IsNaN(a) THEN b
    ELSE IF IsNaN(b) THEN a
    ELSE IF FLt(a, b) THEN b ELSE a

\* integer square root by bisection: the r in lo..hi with r*r <= n < (r+1)^2
RECURSIVE ISqrt(_, _, _)
ISqrt(n, lo, hi) ==
    IF lo >= hi THEN lo
    ELSE LET mid == (lo + hi + 1) \div 2
         IN IF mid * mid <= n THEN ISqrt(n, mid, hi) ELSE ISqrt(n, lo, mid - 1)

\* the square root of n * 10^(2*eh), r being the integer square root of n
SqrtRound(n, r, eh, five) ==
    IF five THEN Round(r, eh, r * r # n)
    ELSE Round(IF n - r * r > r THEN r + 1 ELSE r, eh, FALSE)

FSqrt(a) ==
    IF IsNaN(a) \/ Sgn(a) < 0 THEN NaN
    ELSE IF IsInf(a) \/ a.m = 0 THEN a
    ELSE IF a.e % 2 = 1
         THEN SqrtRound(a.m * 100000, ISqrt(a.m * 100000, 1, 40000), (a.e - 5) \div 2, TRUE)
         ELSE SqrtRound(a.m * 10000, ISqrt(a.m * 10000, 1, 40000), (a.e - 4) \div 2, FALSE)

\* f64::powf(a, h/2) for h in {1, -1}
Powf(a, h) ==
    IF h = 1 THEN FSqrt(a) ELSE FSqrt(FDiv(Lit(1, 0), a))

\* u - u^3/6 + u^5/120, given u and u^2
SinPoly(u, u2) ==
    FAdd(FSub(u, FDiv(FMul(u2, u), Lit(6, 0))),
         FDiv(FMul(FMul(u2, u), u2), Lit(120, 0)))

\* f64::sin by its Taylor polynomial (the driver's arguments are below 1e-9)
Sin(u) == IF IsNaN(u) \/ IsInf(u) THEN NaN ELSE SinPoly(u, FMul(u, u))

\* r clipped to [-1, 1]
Clip(r) ==
    IF FLt(Lit(1, 0), r) THEN Lit(1, 0)
    ELSE IF FLt(r, Lit(-1, 0)) THEN Lit(-1, 0)
    ELSE r

\* u (u^4 + 105 u^2 + 945) / (15 u^4 + 420 u^2 + 945)
TanhPade(u, u2, u4) ==
    Clip(FDiv(FMul(u, FAdd(FAdd(u4, FMul(Lit(105, 0), u2)), Lit(945, 0))),
              FAdd(FAdd(FMul(Lit(15, 0), u4), FMul(Lit(420, 0), u2)), Lit(945, 0))))

\* f64::tanh: +-1 from |u| >= 4 on, a Pade approximant (clipped to [-1, 1]) below
Tanh(u) ==
    IF IsNaN(u) THEN NaN
    ELSE IF IsInf(u) THEN Lit(Sgn(u), 0)
    ELSE IF FLe(Lit(4, 0), u) THEN Lit(1, 0)
    ELSE IF FLe(u, Lit(-4, 0)) THEN Lit(-1, 0)
    ELSE TanhPade(u, FMul(u, u), FMul(FMul(u, u), FMul(u, u)))

\* ------------------------------------------------------------------------
\* Constants
\* ------------------------------------------------------------------------
PI == Lit(3142, -3)

G_A_GAMMA == Lit(1, -12)

PHOTON_TO_NEUTRINO_COEFF == Lit(1, -12)

Q == Lit(1001, -3)

\* grid dimensions (20 x 20 x 20 in the program)
NX == 3

NY == 2

NZ == 2

DX == Lit(5, -16)

DT == Lit(122, -17)

STEPS == 100

PHOTON_INIT == Lit(1, 30)

AXION_INIT == Lit(1, 26)

NEUTRINO_INIT == Lit(1, 20)

ENERGY_INIT == Lit(32, 34)

EPSILON_CRIT == Lit(16, 34)

DELTA == Lit(2, 34)

D_PH == Lit(1, -4)

D_AX == Lit(1, -4)

D_NU == Lit(1, -4)

D_E == Lit(1, -4)

LAMBDA_NU == Lit(1, -6)

ALPHA_EXPANSION == Lit(1, -6)

GW_STR == Lit(1, -21)

GW_FREQ == Lit(1, 3)

HEADER == "time(s),avg_photon_density,avg_axion_density,avg_neutrino_density,avg_energy_density"

\* ------------------------------------------------------------------------
\* Saturation functions
\* ------------------------------------------------------------------------
\* the saturation denominator 1.0 + n_ph / 1e33 of both conversions
Saturation(n_ph) == FAdd(Lit(1, 0), FDiv(n_ph, Lit(1, 33)))

axion_photon_conversion(n_ax, n_ph) ==
    FDiv(FMul(G_A_GAMMA, n_ax), Saturation(n_ph))

photon_neutrino_conversion(n_ph) ==
    FDiv(FMul(PHOTON_TO_NEUTRINO_COEFF, n_ph), Saturation(n_ph))

\* ------------------------------------------------------------------------
\* Field
\* ------------------------------------------------------------------------
Size == NX * NY * NZ

Cells == 0 .. (Size - 1)

FieldNew ==
    [photon_density   |-> [i \in Cells |-> PHOTON_INIT],
     axion_density    |-> [i \in Cells |-> AXION_INIT],
     neutrino_density |-> [i \in Cells |-> NEUTRINO_INIT],
     energy_density   |-> [i \in Cells |-> ENERGY_INIT]]

\* idx with the strides of x and y exchanged
idx_swapped(x, y, z) == x + NY * (y + NX * z)

idx(x, y, z) == x + NX * (y + NY * z)

\* periodic wraparound in place of the clamp
boundary_index_wrap(x, max) == (x + max) % max

boundary_index(x, max) ==
    IF x < 0 THEN 0
    ELSE IF x >= max THEN max - 1
    ELSE x

laplacian(arr, x, y, z) ==
    LET xm == boundary_index(x - 1, NX)
        xp == boundary_index(x + 1, NX)
        ym == boundary_index(y - 1, NY)
        yp == boundary_index(y + 1, NY)
        zm == boundary_index(z - 1, NZ)
        zp == boundary_index(z + 1, NZ)
        c == arr[idx(x, y, z)]
        dx2 == FMul(DX, DX)
        s1 == FAdd(arr[idx(xp, y, z)], arr[idx(xm, y, z)])
        s2 == FAdd(s1, arr[idx(x, yp, z)])
        s3 == FAdd(s2, arr[idx(x, ym, z)])
        s4 == FAdd(s3, arr[idx(x, y, zp)])
        s5 == FAdd(s4, arr[idx(x, y, zm)])
    IN FDiv(FSub(s5, FMul(Lit(6, 0), c)), dx2)

\* ------------------------------------------------------------------------
\* Equation of state and metric factor
\* ------------------------------------------------------------------------
\* w_qgp*p_qgp + (1.0 - w_qgp)*p_hg
EosBlend(w_qgp, p_qgp, p_hg) ==
    FAdd(FMul(w_qgp, p_qgp), FMul(FSub(Lit(1, 0), w_qgp), p_hg))

eos_pressure(eps) ==
    EosBlend(FMul(Lit(5, -1),
                  FAdd(Lit(1, 0), Tanh(FDiv(FSub(eps, EPSILON_CRIT), DELTA)))),
             FMul(FDiv(Lit(1, 0), Lit(3, 0)), eps),
             FMul(Lit(15, -2), eps))

metric_factor(t, x) ==
    FAdd(Lit(1, 0),
         FMul(FMul(GW_STR, Sin(FMul(FMul(FMul(Lit(2, 0), PI), GW_FREQ), t))), x))

\* ------------------------------------------------------------------------
\* Hecke R-matrix: one pair (i, j) of apply_hecke_r_matrix's inner loop
\* ------------------------------------------------------------------------
\* HeckePair subtracting the partner's density
HeckePairSigned(f, i, j) ==
    LET ph_i == f.photon_density[i]
        ax_i == f.axion_density[i]
        ph_j == f.photon_density[j]
        ax_j == f.axion_density[j]
        qm == Powf(Q, -1)
        qp == Powf(Q, 1)
        ph_i_new == FMul(Lit(5, -1), FSub(FMul(ph_i, qm), ax_j))
        ax_i_new == FMul(Lit(5, -1), FSub(FMul(ax_i, qp), ph_j))
        ph_j_new == FMul(Lit(5, -1), FSub(FMul(ph_j, qm), ax_i))
        ax_j_new == FMul(Lit(5, -1), FSub(FMul(ax_j, qp), ph_i))
    IN [f EXCEPT !.photon_density = [@ EXCEPT ![i] = ph_i_new, ![j] = ph_j_new],
                 !.axion_density  = [@ EXCEPT ![i] = ax_i_new, ![j] = ax_j_new]]

\* HeckePair storing each new value before computing the next one
HeckePairInPlace(f, i, j) ==
    LET qm == Powf(Q, -1)
        qp == Powf(Q, 1)
        ph_i_new == FMul(Lit(5, -1), FAdd(FMul(f.photon_density[i], qm), f.axion_density[j]))
        ax_i_new == FMul(Lit(5, -1), FAdd(FMul(f.axion_density[i], qp), f.photon_density[j]))
        ph_j_new == FMul(Lit(5, -1), FAdd(FMul(f.photon_density[j], qm), ax_i_new))
        ax_j_new == FMul(Lit(5, -1), FAdd(FMul(f.axion_density[j], qp), ph_i_new))
    IN [f EXCEPT !.photon_density = [@ EXCEPT ![i] = ph_i_new, ![j] = ph_j_new],
                 !.axion_density  = [@ EXCEPT ![i] = ax_i_new, ![j] = ax_j_new]]

\* HeckePair storing the pair's photon values in neutrino_density as well
HeckePairNu(f, i, j) ==
    LET ph_i == f.photon_density[i]
        ax_i == f.axion_density[i]
        ph_j == f.photon_density[j]
        ax_j == f.axion_density[j]
        qm == Powf(Q, -1)
        qp == Powf(Q, 1)
        ph_i_new == FMul(Lit(5, -1), FAdd(FMul(ph_i, qm), ax_j))
        ax_i_new == FMul(Lit(5, -1), FAdd(FMul(ax_i, qp), ph_j))
        ph_j_new == FMul(Lit(5, -1), FAdd(FMul(ph_j, qm), ax_i))
        ax_j_new == FMul(Lit(5, -1), FAdd(FMul(ax_j, qp), ph_i))
    IN [f EXCEPT !.photon_density = [@ EXCEPT ![i] = ph_i_new, ![j] = ph_j_new],
                 !.axion_density  = [@ EXCEPT ![i] = ax_i_new, ![j] = ax_j_new],
                 !.neutrino_density = [@ EXCEPT ![i] = ph_i_new, ![j] = ph_j_new]]

HeckePair(f, i, j) ==
    LET ph_i == f.photon_density[i]
        ax_i == f.axion_density[i]
        ph_j == f.photon_density[j]
        ax_j == f.axion_density[j]
        qm == Powf(Q, -1)
        qp == Powf(Q, 1)
        ph_i_new == FMul(Lit(5, -1), FAdd(FMul(ph_i, qm), ax_j))
        ax_i_new == FMul(Lit(5, -1), FAdd(FMul(ax_i, qp), ph_j))
        ph_j_new == FMul(Lit(5, -1), FAdd(FMul(ph_j, qm), ax_i))
        ax_j_new == FMul(Lit(5, -1), FAdd(FMul(ax_j, qp), ph_i))
    IN [f EXCEPT !.photon_density = [@ EXCEPT ![i] = ph_i_new, ![j] = ph_j_new],
                 !.axion_density  = [@ EXCEPT ![i] = ax_i_new, ![j] = ax_j_new]]

\* ------------------------------------------------------------------------
\* Reaction-diffusion: the four values main's cell loop stores for (x, y, z)
\* ------------------------------------------------------------------------
\* no floor at zero
ClampNone(v) == v

\* f64::max(v, 0.0)
Clamp0(v) == FMax(v, Zero)

\* the provisional values ph_new, ax_new, nu_new, e_new of cell (x, y, z)
CellRaw(f, t, x, y, z) ==
    LET i == idx(x, y, z)
        n_ph == f.photon_density[i]
        n_ax == f.axion_density[i]
        n_nu == f.neutrino_density[i]
        eps == f.energy_density[i]
        lap_ph == laplacian(f.photon_density, x, y, z)
        lap_ax == laplacian(f.axion_density, x, y, z)
        lap_nu == laplacian(f.neutrino_density, x, y, z)
        lap_e == laplacian(f.energy_density, x, y, z)
        p == eos_pressure(eps)
        d_ax_to_ph == FMul(axion_photon_conversion(n_ax, n_ph), DT)
        d_ph_to_nu == FMul(photon_neutrino_conversion(n_ph), DT)
        d_e_nu == FMul(FMul(LAMBDA_NU, n_nu), DT)
        d_e_exp == FMul(FMul(p, ALPHA_EXPANSION), DT)
    IN [ph |-> FSub(FAdd(FAdd(n_ph, FMul(FMul(D_PH, lap_ph), DT)), d_ax_to_ph), d_ph_to_nu),
        ax |-> FSub(FAdd(n_ax, FMul(FMul(D_AX, lap_ax), DT)), d_ax_to_ph),
        nu |-> FAdd(FAdd(n_nu, FMul(FMul(D_NU, lap_nu), DT)), d_ph_to_nu),
        e  |-> FSub(FSub(FAdd(eps, FMul(FMul(D_E, lap_e), DT)), d_e_nu), d_e_exp)]

\* the values stored for a cell: (v * mf).max(0.0) for each provisional value
Stored(raw, mf) ==
    [ph |-> Clamp0(FMul(raw.ph, mf)),
     ax |-> Clamp0(FMul(raw.ax, mf)),
     nu |-> Clamp0(FMul(raw.nu, mf)),
     e  |-> Clamp0(FMul(raw.e, mf))]

CellUpdate(f, t, x, y, z) ==
    Stored(CellRaw(f, t, x, y, z), metric_factor(t, FMul(FromInt(x), DX)))

\* whole passes, as functions of the Field they start from
CoordOf(i) == [x |-> i % NX, y |-> (i \div NX) % NY, z |-> i \div (NX * NY)]

FieldOf(u) ==
    [photon_density   |-> [i \in Cells |-> u[i].ph],
     axion_density    |-> [i \in Cells |-> u[i].ax],
     neutrino_density |-> [i \in Cells |-> u[i].nu],
     energy_density   |-> [i \in Cells |-> u[i].e]]

RDAll(f, t) ==
    FieldOf([i \in Cells |-> CellUpdate(f, t, CoordOf(i).x, CoordOf(i).y, CoordOf(i).z)])

\* a loop that stops one pair early, leaving the last site alone
XPairsShort == NX - 2

\* number of pairs on a line: "for x in 0..(NX-1)"
XPairs == NX - 1

\* apply_hecke_r_matrix after its first n pairs, in loop order
RECURSIVE HeckeUpTo(_, _)
HeckeUpTo(f, n) ==
    IF n = 0 THEN f
    ELSE LET k == n - 1
             x == k % XPairs
             y == (k \div XPairs) % NY
             z == k \div (XPairs * NY)
         IN HeckePair(HeckeUpTo(f, k), idx(x, y, z), idx(x + 1, y, z))

apply_hecke_r_matrix(f) == HeckeUpTo(f, XPairs * NY * NZ)

\* the time at the end of the timestep
TimeOfEnd(n) == FMul(FromInt(n + 1), DT)

\* t = step as f64 * DT
TimeOf(n) == FMul(FromInt(n), DT)

\* avg = arr.iter().sum::<f64>() / vol
RECURSIVE SumTo(_, _)
SumTo(arr, n) == IF n = 0 THEN Zero ELSE FAdd(SumTo(arr, n - 1), arr[n - 1])

Avg(arr) == FDiv(SumTo(arr, Size), FromInt(Size))

\* ------------------------------------------------------------------------
\* State
\* ------------------------------------------------------------------------
VARIABLES
    field,      \* the Field of main
    new_ph, new_ax, new_nu, new_e,   \* the next-state buffers of a timestep
    step,       \* loop counter of main
    t,          \* elapsed time of the current timestep
    c,          \* loop coordinates [x, y, z] of the pass in progress
    pc,         \* position of main
    file,       \* lines written to results.csv
    pre,        \* history: the Field at the start of the current timestep
    mid,        \* history: the Field the reaction-diffusion pass handed to the braiding pass
    log,        \* history: the passes completed, in order
    arg, res    \* argument and result of a store function called on its own

vars == <<field, new_ph, new_ax, new_nu, new_e, step, t, c, pc, file, pre, mid, log, arg, res>>

Origin == [x |-> 0, y |-> 0, z |-> 0]

\* successor of c in "for z { for y { for x in 0..xlim } }"
NextCoord(cc, xlim) ==
    IF cc.x + 1 < xlim THEN [cc EXCEPT !.x = cc.x + 1]
    ELSE IF cc.y + 1 < NY THEN [x |-> 0, y |-> cc.y + 1, z |-> cc.z]
    ELSE [x |-> 0, y |-> 0, z |-> cc.z + 1]

LastCoord(cc, xlim) == cc.x + 1 >= xlim /\ cc.y + 1 >= NY /\ cc.z + 1 >= NZ

Init ==
    /\ field = FieldNew
    /\ new_ph = << >>
    /\ new_ax = << >>
    /\ new_nu = << >>
    /\ new_e = << >>
    /\ step = 0
    /\ t = Zero
    /\ c = Origin
    /\ pc = "create"
    /\ file = << >>
    /\ pre = FieldNew
    /\ mid = FieldNew
    /\ log = << >>
    /\ arg = << >>
    /\ res = << >>

\* File::create and the header line
WriteHeader ==
    /\ pc = "create"
    /\ file' = <<HEADER>>
    /\ pc' = "loop"
    /\ UNCHANGED <<field, new_ph, new_ax, new_nu, new_e, step, t, c, pre, mid, log, arg, res>>

\* top of "for step in 0..STEPS": t and the four clones
StepBegin ==
    /\ pc = "loop"
    /\ step < STEPS
    /\ t' = TimeOf(step)
    /\ new_ph' = field.photon_density
    /\ new_ax' = field.axion_density
    /\ new_nu' = field.neutrino_density
    /\ new_e' = field.energy_density
    /\ c' = Origin
    /\ pc' = "rd"
    /\ pre' = field
    /\ UNCHANGED <<field, step, file, mid, log, arg, res>>

\* new_ph[idx] = ..; new_ax[idx] = ..; new_nu[idx] = ..; new_e[idx] = ..
StoreCell(u, i) ==
    /\ new_ph' = [new_ph EXCEPT ![i] = u.ph]
    /\ new_ax' = [new_ax EXCEPT ![i] = u.ax]
    /\ new_nu' = [new_nu EXCEPT ![i] = u.nu]
    /\ new_e' = [new_e EXCEPT ![i] = u.e]

\* the cell loop storing into the Field it is reading
RDCellInPlace ==
    /\ pc = "rd"
    /\ StoreCell(CellUpdate(field, t, c.x, c.y, c.z), idx(c.x, c.y, c.z))
    /\ field' = [photon_density |-> new_ph', axion_density |-> new_ax',
                 neutrino_density |-> new_nu', energy_density |-> new_e']
    /\ IF LastCoord(c, NX)
       THEN pc' = "assign" /\ c' = Origin
       ELSE pc' = "rd" /\ c' = NextCoord(c, NX)
    /\ UNCHANGED <<step, t, file, pre, mid, log, arg, res>>

\* one iteration of the cell loop
RDCell ==
    /\ pc = "rd"
    /\ StoreCell(CellUpdate(field, t, c.x, c.y, c.z), idx(c.x, c.y, c.z))
    /\ IF LastCoord(c, NX)
       THEN pc' = "assign" /\ c' = Origin
       ELSE pc' = "rd" /\ c' = NextCoord(c, NX)
    /\ UNCHANGED <<field, step, t, file, pre, mid, log, arg, res>>

\* the Field replaced, and the braiding pass left out
AssignSkipBraid ==
    /\ pc = "assign"
    /\ field' = [photon_density |-> new_ph, axion_density |-> new_ax,
                 neutrino_density |-> new_nu, energy_density |-> new_e]
    /\ pc' = "emit"
    /\ c' = Origin
    /\ mid' = field'
    /\ log' = Append(log, <<"rd", step>>)
    /\ UNCHANGED <<new_ph, new_ax, new_nu, new_e, step, t, file, pre, arg, res>>

\* the four assignments that replace the Field
Assign ==
    /\ pc = "assign"
    /\ field' = [photon_density |-> new_ph, axion_density |-> new_ax,
                 neutrino_density |-> new_nu, energy_density |-> new_e]
    /\ pc' = "braid"
    /\ c' = Origin
    /\ mid' = field'
    /\ log' = Append(log, <<"rd", step>>)
    /\ UNCHANGED <<new_ph, new_ax, new_nu, new_e, step, t, file, pre, arg, res>>

\* one iteration of apply_hecke_r_matrix's loop
BraidPair ==
    /\ pc = "braid"
    /\ field' = HeckePair(field, idx(c.x, c.y, c.z), idx(c.x + 1, c.y, c.z))
    /\ IF LastCoord(c, XPairs)
       THEN pc' = "emit" /\ c' = Origin /\ log' = Append(log, <<"braid", step>>)
       ELSE pc' = "braid" /\ c' = NextCoord(c, XPairs) /\ log' = log
    /\ UNCHANGED <<new_ph, new_ax, new_nu, new_e, step, t, file, pre, mid, arg, res>>

\* the averages and the data line
Emit ==
    /\ pc = "emit"
    /\ file' = Append(file, [time |-> t,
                             avg_photon |-> Avg(field.photon_density),
                             avg_axion |-> Avg(field.axion_density),
                             avg_neutrino |-> Avg(field.neutrino_density),
                             avg_energy |-> Avg(field.energy_density)])
    /\ step' = step + 1
    /\ pc' = "loop"
    /\ log' = Append(log, <<"record", step>>)
    /\ UNCHANGED <<field, new_ph, new_ax, new_nu, new_e, t, c, pre, mid, arg, res>>

\* the loop is exhausted: the completion notice
Finish ==
    /\ pc = "loop"
    /\ step >= STEPS
    /\ pc' = "done"
    /\ UNCHANGED <<field, new_ph, new_ax, new_nu, new_e, step, t, c, file, pre, mid, log, arg, res>>

Next == WriteHeader \/ StepBegin \/ RDCell \/ Assign \/ BraidPair \/ Emit \/ Finish

Spec == Init /\ [][Next]_vars

\* ------------------------------------------------------------------------
\* apply_hecke_r_matrix on its own, from a bounded family of Fields
\* ------------------------------------------------------------------------
PhVals == <<Zero, Lit(3, 29), Inf>>

AxVals == <<Lit(1, 26), Lit(7, 40)>>

\* the Field whose lines are the profiles p (photon) and q (axion), rotated
\* from line to line; neutrino and energy differ from cell to cell
ProfileField(p, q) ==
    [photon_density   |-> [i \in Cells |->
        PhVals[((p[CoordOf(i).x] + CoordOf(i).y + CoordOf(i).z) % 3) + 1]],
     axion_density    |-> [i \in Cells |->
        AxVals[((q[CoordOf(i).x] + CoordOf(i).y) % 2) + 1]],
     neutrino_density |-> [i \in Cells |-> FMul(FromInt(i + 1), NEUTRINO_INIT)],
     energy_density   |-> [i \in Cells |-> FMul(FromInt(i + 1), EPSILON_CRIT)]]

InitBraid ==
    /\ \E p \in [0 .. (NX - 1) -> 0 .. 2], q \in [0 .. (NX - 1) -> 0 .. 1] :
          field = ProfileField(p, q)
    /\ new_ph = << >>
    /\ new_ax = << >>
    /\ new_nu = << >>
    /\ new_e = << >>
    /\ step = 0
    /\ t = Zero
    /\ c = Origin
    /\ pc = "braid"
    /\ file = <<HEADER>>
    /\ pre = field
    /\ mid = field
    /\ log = << >>
    /\ arg = << >>
    /\ res = << >>

NextBraid == BraidPair

SpecBraid == InitBraid /\ [][NextBraid]_vars

\* ------------------------------------------------------------------------
\* The store functions idx, boundary_index and laplacian on their own
\* ------------------------------------------------------------------------
\* how far outside 0..max-1 the coordinates given to boundary_index go
Reach == 3

Coords == (0 .. (NX - 1)) \X (0 .. (NY - 1)) \X (0 .. (NZ - 1))

ArrGrad(s) == [i \in Cells |-> FromInt((i + 1) * (i + s))]

ArrHot(h) == [i \in Cells |-> IF i = h THEN PHOTON_INIT ELSE AXION_INIT]

LapArrs == {ArrGrad(s) : s \in 1 .. 3} \cup {ArrHot(h) : h \in Cells}

StoreArgs ==
    {[fn |-> "idx", a |-> <<p[1], p[2], p[3], q[1], q[2], q[3]>>, arr |-> << >>] :
        p \in Coords, q \in Coords}
    \cup {[fn |-> "boundary_index", a |-> <<x, max>>, arr |-> << >>] :
        x \in (0 - Reach) .. (NX + NY + NZ + Reach), max \in {NX, NY, NZ}}
    \cup {[fn |-> "laplacian", a |-> <<p[1], p[2], p[3]>>, arr |-> w] :
        p \in Coords, w \in LapArrs}

InitStore ==
    /\ field = FieldNew
    /\ new_ph = << >>
    /\ new_ax = << >>
    /\ new_nu = << >>
    /\ new_e = << >>
    /\ step = 0
    /\ t = Zero
    /\ c = Origin
    /\ pc = "call"
    /\ file = << >>
    /\ pre = FieldNew
    /\ mid = FieldNew
    /\ log = << >>
    /\ arg \in StoreArgs
    /\ res = << >>

CallIdx ==
    /\ pc = "call"
    /\ arg.fn = "idx"
    /\ res' = <<idx(arg.a[1], arg.a[2], arg.a[3]), idx(arg.a[4], arg.a[5], arg.a[6])>>
    /\ pc' = "returned"
    /\ UNCHANGED <<field, new_ph, new_ax, new_nu, new_e, step, t, c, file, pre, mid, log, arg>>

CallBoundaryIndex ==
    /\ pc = "call"
    /\ arg.fn = "boundary_index"
    /\ res' = <<boundary_index(arg.a[1], arg.a[2])>>
    /\ pc' = "returned"
    /\ UNCHANGED <<field, new_ph, new_ax, new_nu, new_e, step, t, c, file, pre, mid, log, arg>>

CallLaplacian ==
    /\ pc = "call"
    /\ arg.fn = "laplacian"
    /\ res' = <<laplacian(arg.arr, arg.a[1], arg.a[2], arg.a[3])>>
    /\ pc' = "returned"
    /\ UNCHANGED <<field, new_ph, new_ax, new_nu, new_e, step, t, c, file, pre, mid, log, arg>>

NextStore == CallIdx \/ CallBoundaryIndex \/ CallLaplacian

SpecStore == InitStore /\ [][NextStore]_vars

\* ------------------------------------------------------------------------
\* Properties
\* ------------------------------------------------------------------------
NonNeg(v) == ~IsNaN(v) /\ Sgn(v) >= 0

AllNonNeg(arr) == \A i \in Cells : NonNeg(arr[i])

\* C1: all four densities of every cell are >= 0 in the buffers the
\* reaction-diffusion pass fills, and >= 0 on the Field at every point of the
\* run, in particular after apply_hecke_r_matrix at the end of each timestep.
C1_NonNegative ==
    /\ pc \in {"rd", "assign"} =>
          AllNonNeg(new_ph) /\ AllNonNeg(new_ax) /\ AllNonNeg(new_nu) /\ AllNonNeg(new_e)
    /\ AllNonNeg(field.photon_density)
    /\ AllNonNeg(field.axion_density)
    /\ AllNonNeg(field.neutrino_density)
    /\ AllNonNeg(field.energy_density)

\* a timestep whose pass computed a negative value and a NaN before the floor,
\* stored 0 for both, and whose braiding pass left an infinite density
C1_Witness ==
    /\ pc = "emit"
    /\ \E i \in Cells :
          LET u == CellRaw(pre, t, CoordOf(i).x, CoordOf(i).y, CoordOf(i).z)
          IN \/ FLt(u.ph, Zero) /\ mid.photon_density[i] = Zero
             \/ FLt(u.ax, Zero) /\ mid.axion_density[i] = Zero
             \/ FLt(u.nu, Zero) /\ mid.neutrino_density[i] = Zero
             \/ FLt(u.e, Zero) /\ mid.energy_density[i] = Zero
    /\ \E i \in Cells :
          /\ IsNaN(CellRaw(pre, t, CoordOf(i).x, CoordOf(i).y, CoordOf(i).z).ph)
          /\ mid.photon_density[i] = Zero
    /\ \E i \in Cells : IsInf(field.photon_density[i])

\* ---- the manual left-to-right recurrence on one line ----
Line(arr, y, z) == [x \in 0 .. (NX - 1) |-> arr[x + NX * (y + NY * z)]]

\* the line (ph, ax) after its pairs (0,1) .. (n-1,n), each pair computed from
\* what its two sites hold when it is reached
RECURSIVE LineRec(_, _, _)
LineRec(ph, ax, n) ==
    IF n = 0 THEN [ph |-> ph, ax |-> ax]
    ELSE LET s == LineRec(ph, ax, n - 1)
             x == n - 1
             qm == Powf(Q, -1)
             qp == Powf(Q, 1)
             half == Lit(5, -1)
         IN [ph |-> [s.ph EXCEPT ![x]     = FMul(half, FAdd(FMul(s.ph[x], qm), s.ax[x + 1])),
                                 ![x + 1] = FMul(half, FAdd(FMul(s.ph[x + 1], qm), s.ax[x]))],
             ax |-> [s.ax EXCEPT ![x]     = FMul(half, FAdd(FMul(s.ax[x], qp), s.ph[x + 1])),
                                 ![x + 1] = FMul(half, FAdd(FMul(s.ax[x + 1], qp), s.ph[x]))]]

\* pairs of line (y, z) the braiding pass has processed so far
PairsDone(y, z) ==
    IF pc = "emit" THEN NX - 1
    ELSE IF z < c.z \/ (z = c.z /\ y < c.y) THEN NX - 1
    ELSE IF z = c.z /\ y = c.y THEN c.x
    ELSE 0

\* C2: at every point of the braiding pass, and at its end, every (y,z) line
\* holds the manual left-to-right recurrence over its own pre-braiding values,
\* taken as far as the pairs processed on that line; no other line enters.
C2_Recurrence ==
    pc \in {"braid", "emit"} =>
        \A y \in 0 .. (NY - 1), z \in 0 .. (NZ - 1) :
            LET r == LineRec(Line(mid.photon_density, y, z),
                             Line(mid.axion_density, y, z), PairsDone(y, z))
            IN /\ Line(field.photon_density, y, z) = r.ph
               /\ Line(field.axion_density, y, z) = r.ax

\* a finished pass on a Field whose first line has three distinct photon values,
\* where site 1 does not hold what pair (0,1) alone would have left there
C2_Witness ==
    /\ pc = "emit"
    /\ mid.photon_density[0] # mid.photon_density[1]
    /\ mid.photon_density[1] # mid.photon_density[2]
    /\ mid.photon_density[0] # mid.photon_density[2]
    /\ field.photon_density[1] # HeckePair(mid, 0, 1).photon_density[1]
    /\ field.photon_density[NX] # mid.photon_density[NX]

\* C3 as stated: after the braiding pass the last site of every line holds the
\* photon and axion densities it held before the pass.
C3_LastSiteUntouched ==
    pc = "emit" =>
        \A y \in 0 .. (NY - 1), z \in 0 .. (NZ - 1) :
            LET last == (NX - 1) + NX * (y + NY * z)
            IN /\ field.photon_density[last] = mid.photon_density[last]
               /\ field.axion_density[last] = mid.axion_density[last]

\* C3 amended: the last site of a line is never the left member of a pair; it
\* keeps its pre-braiding values until the line's final pair (NX-2, NX-1) and is
\* then written once, as that pair's right member, from its own pre-braiding
\* values and the values site NX-2 holds after pair (NX-3, NX-2).
C3_LastSiteWrittenOnce ==
    pc \in {"braid", "emit"} =>
        \A y \in 0 .. (NY - 1), z \in 0 .. (NZ - 1) :
            LET last == (NX - 1) + NX * (y + NY * z)
                s == LineRec(Line(mid.photon_density, y, z),
                             Line(mid.axion_density, y, z), NX - 2)
            IN IF PairsDone(y, z) < NX - 1
               THEN /\ field.photon_density[last] = mid.photon_density[last]
                    /\ field.axion_density[last] = mid.axion_density[last]
               ELSE /\ field.photon_density[last] =
                          FMul(Lit(5, -1), FAdd(FMul(mid.photon_density[last], Powf(Q, -1)),
                                                s.ax[NX - 2]))
                    /\ field.axion_density[last] =
                          FMul(Lit(5, -1), FAdd(FMul(mid.axion_density[last], Powf(Q, 1)),
                                                s.ph[NX - 2]))

\* a finished pass that changed the last site of a line
C3_Witness ==
    /\ pc = "emit"
    /\ \E y \in 0 .. (NY - 1), z \in 0 .. (NZ - 1) :
          LET last == (NX - 1) + NX * (y + NY * z)
          IN /\ field.photon_density[last] # mid.photon_density[last]
             /\ field.axion_density[last] # mid.axion_density[last]

\* C4: while the reaction-diffusion pass runs the Field is the pre-step
\* snapshot; every buffer cell already visited holds the update computed from
\* that snapshot alone and every other buffer cell its clone; the Field is
\* replaced, all cells at once, only after the pass.
C4_Snapshot ==
    /\ pc \in {"rd", "assign"} =>
          /\ field = pre
          /\ \A i \in Cells :
                LET n == c.x + NX * (c.y + NY * c.z)
                    visited == pc = "assign" \/ i < n
                    fresh == pc = "assign" \/ i = n - 1
                IN IF visited
                   THEN fresh =>
                          LET u == CellUpdate(pre, t, CoordOf(i).x, CoordOf(i).y,
                                              CoordOf(i).z)
                          IN new_ph[i] = u.ph /\ new_ax[i] = u.ax
                             /\ new_nu[i] = u.nu /\ new_e[i] = u.e
                   ELSE new_ph[i] = pre.photon_density[i]
                        /\ new_ax[i] = pre.axion_density[i]
                        /\ new_nu[i] = pre.neutrino_density[i]
                        /\ new_e[i] = pre.energy_density[i]
    /\ pc = "braid" /\ c = Origin => field = RDAll(pre, t)

\* a completed pass over a non-uniform Field that changed a cell whose
\* neighbours differ from it
C4_Witness ==
    /\ pc = "assign"
    /\ step > 0
    /\ \E i \in Cells : pre.photon_density[i] # pre.photon_density[0]
    /\ \E i \in Cells : new_ph[i] # pre.photon_density[i]

Phases == <<"rd", "braid", "record">>

\* loop iterations of one timestep: the clones, the cells, the assignments,
\* the pairs, the record
PerStep == 1 + Size + 1 + (NX - 1) * NY * NZ + 1

\* steps main has left to take
Remaining ==
    CASE pc = "create" -> 1 + STEPS * PerStep + 1
      [] pc = "loop"   -> (STEPS - step) * PerStep + 1
      [] pc = "rd"     -> (STEPS - step - 1) * PerStep + 1
                          + (Size - (c.x + NX * (c.y + NY * c.z))) + 1 + (NX - 1) * NY * NZ + 1
      [] pc = "assign" -> (STEPS - step - 1) * PerStep + 1 + 1 + (NX - 1) * NY * NZ + 1
      [] pc = "braid"  -> (STEPS - step - 1) * PerStep + 1
                          + ((NX - 1) * NY * NZ - (c.x + (NX - 1) * (c.y + NY * c.z))) + 1
      [] pc = "emit"   -> (STEPS - step - 1) * PerStep + 1 + 1
      [] OTHER         -> 0

C5_Order ==
    /\ pc # "create" => Len(file) = 1 + step /\ file[1] = HEADER
    /\ \A n \in 1 .. Len(log) : log[n] = <<Phases[((n - 1) % 3) + 1], (n - 1) \div 3>>
    /\ pc = "emit" => /\ mid = RDAll(pre, t)
                      /\ field = apply_hecke_r_matrix(mid)
                      /\ Len(log) = 3 * step + 2
    /\ pc = "loop" /\ step > 0 =>
          /\ field = apply_hecke_r_matrix(mid)
          /\ Len(log) = 3 * step
          /\ file[Len(file)].avg_photon = Avg(field.photon_density)
          /\ file[Len(file)].avg_axion = Avg(field.axion_density)
          /\ file[Len(file)].avg_neutrino = Avg(field.neutrino_density)
          /\ file[Len(file)].avg_energy = Avg(field.energy_density)
    /\ pc = "done" => step = STEPS /\ Len(file) = 1 + STEPS /\ Len(log) = 3 * STEPS
    /\ Remaining = 0 <=> pc = "done"

\* C5: in every timestep the passes complete in the order reaction-diffusion,
\* braiding (once, on the Field the reaction-diffusion pass produced), record
\* (the averages of the Field after braiding); the file is the header followed
\* by one record per completed timestep; every step of the run takes it one
\* step closer to its end, which it reaches with exactly STEPS records.
C5_FixedOrder == [](C5_Order) /\ [][Remaining' = Remaining - 1]_vars

\* a record written after a braiding pass that changed the Field the
\* reaction-diffusion pass had produced from a different pre-step Field
C5_Witness ==
    /\ pc = "loop"
    /\ step > 1
    /\ mid # pre
    /\ field # mid
    /\ Len(file) = 1 + step

\* C6: the braiding pass leaves neutrino_density and energy_density of every
\* cell as they were before it.
C6_NeutrinoEnergyKept ==
    pc \in {"braid", "emit"} =>
        /\ field.neutrino_density = mid.neutrino_density
        /\ field.energy_density = mid.energy_density

\* a finished pass that changed photon and axion densities
C6_Witness ==
    /\ pc = "emit"
    /\ field.photon_density # mid.photon_density
    /\ field.axion_density # mid.axion_density
    /\ mid.neutrino_density[0] # mid.neutrino_density[1]

\* the Laplacian by hand: an out-of-grid neighbour is the cell's own value
ManualLap(arr, x, y, z) ==
    LET cv == arr[x + NX * (y + NY * z)]
        at(xx, yy, zz) ==
            IF xx \in 0 .. (NX - 1) /\ yy \in 0 .. (NY - 1) /\ zz \in 0 .. (NZ - 1)
            THEN arr[xx + NX * (yy + NY * zz)]
            ELSE cv
        sum == FAdd(FAdd(FAdd(FAdd(FAdd(at(x + 1, y, z), at(x - 1, y, z)),
                                   at(x, y + 1, z)), at(x, y - 1, z)),
                         at(x, y, z + 1)), at(x, y, z - 1))
    IN FDiv(FSub(sum, FMul(Lit(6, 0), cv)), FMul(DX, DX))

\* C7: boundary_index(c, max) is c inside 0..max-1, 0 below and max-1 above;
\* laplacian uses the cell's own value for every out-of-grid neighbour, axis
\* by axis.
C7_EdgeReplication ==
    /\ pc = "returned" /\ arg.fn = "boundary_index" =>
          LET x == arg.a[1]
              max == arg.a[2]
          IN /\ (0 <= x /\ x < max) => res[1] = x
             /\ x < 0 => res[1] = 0
             /\ x >= max => res[1] = max - 1
    /\ pc = "returned" /\ arg.fn = "laplacian" =>
          res[1] = ManualLap(arg.arr, arg.a[1], arg.a[2], arg.a[3])

\* laplacian at the corner (0,0,0) of an array whose far x-face differs from
\* the corner, so that a wrapped neighbour would show
C7_Witness ==
    /\ pc = "returned"
    /\ arg.fn = "laplacian"
    /\ arg.a = <<0, 0, 0>>
    /\ arg.arr[NX - 1] # arg.arr[0]
    /\ arg.arr[1] # arg.arr[0]
    /\ res[1] # Zero

\* C8: idx maps valid coordinates into 0..Size-1, distinct coordinates to
\* distinct offsets, the x-successor to the next offset, and reaches every
\* offset.
C8_IdxBijection ==
    /\ pc = "returned" /\ arg.fn = "idx" =>
          /\ res[1] \in 0 .. (Size - 1)
          /\ <<arg.a[1], arg.a[2], arg.a[3]>> # <<arg.a[4], arg.a[5], arg.a[6]>>
                => res[1] # res[2]
          /\ (arg.a[4] = arg.a[1] + 1 /\ arg.a[5] = arg.a[2] /\ arg.a[6] = arg.a[3])
                => res[2] = res[1] + 1
    /\ \A off \in Cells : \E p \in Coords : idx(p[1], p[2], p[3]) = off

\* idx applied to a cell off the first row and layer and to its x-successor
C8_Witness ==
    /\ pc = "returned"
    /\ arg.fn = "idx"
    /\ arg.a[2] > 0
    /\ arg.a[3] > 0
    /\ arg.a[4] = arg.a[1] + 1
    /\ arg.a[5] = arg.a[2]
    /\ arg.a[6] = arg.a[3]

\* C9: whenever the cell loop runs, the photon density of every cell it will
\* pass to the two conversions is >= 0 and the saturation denominator is >= 1.
C9_SaturationDenominator ==
    pc = "rd" =>
        \A i \in Cells :
            /\ NonNeg(field.photon_density[i])
            /\ FLe(Lit(1, 0), Saturation(field.photon_density[i]))
            /\ Saturation(field.photon_density[i]) # Zero

\* the cell loop of a later timestep, reading a photon density that the
\* previous timestep's braiding pass wrote
C9_Witness ==
    /\ pc = "rd"
    /\ step > 0
    /\ LET i == c.x + NX * (c.y + NY * c.z)
       IN /\ field.photon_density[i] # mid.photon_density[i]
          /\ field.photon_density[i] = apply_hecke_r_matrix(mid).photon_density[i]
          /\ field.photon_density[i] # Zero

RecordOf(f, time) ==
    [time |-> time,
     avg_photon |-> Avg(f.photon_density),
     avg_axion |-> Avg(f.axion_density),
     avg_neutrino |-> Avg(f.neutrino_density),
     avg_energy |-> Avg(f.energy_density)]

\* C10: record k carries the time k*DT and the averages of the Field after
\* timestep k's two passes; the first record has time 0 and is not the initial
\* Field's; the last record's time is (STEPS-1)*DT.
C10_RecordTimes ==
    /\ \A k \in 0 .. (Len(file) - 2) : file[k + 2].time = FMul(FromInt(k), DT)
    /\ pc = "loop" /\ step > 0 =>
          /\ field = apply_hecke_r_matrix(RDAll(pre, FMul(FromInt(step - 1), DT)))
          /\ file[step + 1] = RecordOf(field, FMul(FromInt(step - 1), DT))
    /\ pc = "loop" /\ step = 1 => pre = FieldNew /\ file[2].time = Zero
    /\ pc = "loop" /\ step > 0 => file[step + 1] # RecordOf(FieldNew, file[step + 1].time)
    /\ pc = "done" => file[Len(file)].time = FMul(FromInt(STEPS - 1), DT)

\* the run finished, its last record carrying a time other than the first's
C10_Witness ==
    /\ pc = "done"
    /\ Len(file) = 1 + STEPS
    /\ file[Len(file)].time # file[2].time
    /\ file[2].avg_photon # PHOTON_INIT

====
